---- MODULE Spec2Model ----
(***************************************************************************)
(* airtable2sql/cli.py: export of Airtable bases into SQLite files.        *)
(*                                                                         *)
(* Python strings that the code splits, strips or rewrites are sequences   *)
(* of one-character strings; Python values held by record fields are       *)
(* sequences <<kind, payload...>>.                                         *)
(***************************************************************************)
EXTENDS Integers, Sequences, FiniteSets, TLC

\* ------------------------------------------------------------------ bounds
MaxBases   == 2   \* longest accessible-base list the service returns
MaxTables  == 2   \* most tables the metadata endpoint returns for a base
MaxRecords == 2   \* most records of a table in the table-level specification

\* ------------------------------------------------------- Python text helpers
NONE == <<"None">>          \* Python None, where a string is optional
EMPTY == << >>              \* the empty string ""

Falsy(s) == s = NONE \/ s = EMPTY

RECURSIVE replace(_)
\* str.replace(' ', '_')
replace(s) ==
    IF s = << >> THEN << >>
    ELSE <<(IF Head(s) = " " THEN "_" ELSE Head(s))>> \o replace(Tail(s))

RECURSIVE lstrip(_)
lstrip(s) == IF s # << >> /\ Head(s) = " " THEN lstrip(Tail(s)) ELSE s

RECURSIVE rstrip(_)
rstrip(s) ==
    IF s # << >> /\ s[Len(s)] = " " THEN rstrip(SubSeq(s, 1, Len(s) - 1)) ELSE s

\* str.strip()
strip(s) == rstrip(lstrip(s))

RECURSIVE splitFrom(_, _)
\* str.split(","): cur is the piece being read
splitFrom(s, cur) ==
    IF s = << >> THEN <<cur>>
    ELSE IF Head(s) = "," THEN <<cur>> \o splitFrom(Tail(s), << >>)
    ELSE splitFrom(Tail(s), Append(cur, Head(s)))

split(s) == splitFrom(s, << >>)

\* [b.strip() for b in args.base.split(",")]
ParseBaseIds(arg) == [i \in 1..Len(split(arg)) |-> strip(split(arg)[i])]

\* ------------------------------------------------------------ field values
NULL == <<"null">>                     \* a missing cell of the frame / SQL NULL
Scalar(x) == <<"scalar", x>>
IsComposite(v) == v[1] \in {"list", "dict"}

RECURSIVE joinItems(_, _)
joinItems(v, i) ==
    IF i > Len(v) THEN ""
    ELSE "\"" \o v[i] \o "\"" \o (IF i < Len(v) THEN ", " ELSE "") \o joinItems(v, i + 1)

RECURSIVE joinPairs(_, _)
joinPairs(v, i) ==
    IF i > Len(v) THEN ""
    ELSE "\"" \o v[i] \o "\": \"" \o v[i + 1] \o "\""
         \o (IF i + 1 < Len(v) THEN ", " ELSE "") \o joinPairs(v, i + 2)

\* json.dumps of a list of strings <<"list", e1, ...>> or of a mapping
\* <<"dict", k1, v1, ...>>
json_dumps(v) ==
    IF v[1] = "list" THEN "[" \o joinItems(v, 2) \o "]"
    ELSE "{" \o joinPairs(v, 2) \o "}"

sanitize_field(value) ==
    IF IsComposite(value) THEN Scalar(json_dumps(value)) ELSE value

\* ------------------------------------------------- dicts in insertion order
\* a dict is a sequence of <<key, value>> pairs with distinct keys
Keys(d) == {d[i][1] : i \in 1..Len(d)}
HasKey(d, k) == \E i \in 1..Len(d) : d[i][1] = k
Get(d, k) == d[CHOOSE i \in 1..Len(d) : d[i][1] = k][2]
\* d[k] = v
DictSet(d, k, v) ==
    IF HasKey(d, k)
    THEN [i \in 1..Len(d) |-> IF d[i][1] = k THEN <<k, v>> ELSE d[i]]
    ELSE Append(d, <<k, v>>)

\* the loop body of airtable_to_df for one record
CleanFields(record) ==
    DictSet([i \in 1..Len(record.fields) |->
                <<record.fields[i][1], sanitize_field(record.fields[i][2])>>],
            "_id", Scalar(record.id))

\* the columns of the first row alone
FirstRowOnly(data, i, acc) ==
    IF Len(data) = 0 THEN acc ELSE [j \in 1..Len(data[1]) |-> data[1][j][1]]

RECURSIVE FirstSeen(_, _, _)
\* column labels of pd.DataFrame(list of dicts): keys in order of first appearance
FirstSeen(data, i, acc) ==
    IF i > Len(data) THEN acc
    ELSE LET d == data[i]
             new == SelectSeq([j \in 1..Len(d) |-> d[j][1]],
                              LAMBDA k : \A n \in 1..Len(acc) : acc[n] # k)
         IN FirstSeen(data, i + 1, acc \o new)

\* pd.DataFrame(data): dense rows over the union of the keys, NaN where absent
DataFrame(data) ==
    LET cols == FirstSeen(data, 1, << >>)
        colset == {cols[i] : i \in 1..Len(cols)}
    IN [columns |-> cols,
        rows |-> [i \in 1..Len(data) |->
                    [c \in colset |-> IF HasKey(data[i], c) THEN Get(data[i], c) ELSE NULL]]]

airtable_to_df(records) ==
    DataFrame([i \in 1..Len(records) |-> CleanFields(records[i])])

\* no test for an empty frame
IsEmptyTableNever(df) == FALSE

\* df.empty or len(df.columns) == 0
IsEmptyTable(df) == Len(df.rows) = 0 \/ Len(df.columns) = 0

\* ------------------------------------------------------------- local store
\* the file system's databases: path |-> (table name |-> [columns, rows])
NoTables == << >>
Db(st, path) == IF path \in DOMAIN st THEN st[path] ELSE NoTables

PutDb(st, path, db) == [p \in DOMAIN st \cup {path} |-> IF p = path THEN db ELSE st[p]]

\* DROP TABLE name, the first step of if_exists='replace'
DropTable(db, name) == [t \in DOMAIN db \ {name} |-> db[t]]

\* CREATE TABLE name with the frame's columns, the second step
CreateTable(db, name, df) ==
    [t \in DOMAIN db \cup {name} |->
        IF t = name THEN [columns |-> df.columns, rows |-> << >>] ELSE db[t]]

\* INSERT of all the frame's rows, the last step
InsertRows(db, name, df) == [db EXCEPT ![name].rows = @ \o df.rows]

\* if_exists='append': the rows are added to the table that is there
to_sql_append(db, name, df) ==
    IF name \in DOMAIN db THEN InsertRows(db, name, df)
    ELSE InsertRows(CreateTable(db, name, df), name, df)

\* df.to_sql(table_name, engine, if_exists='replace', index=False), completed
to_sql(db, name, df) == InsertRows(CreateTable(DropTable(db, name), name, df), name, df)

\* what a to_sql that raises can leave behind: nothing done, the old table
\* dropped, or the new table created and its rows not inserted
ToSqlFailed(db, name, df) ==
    {db, DropTable(db, name), CreateTable(DropTable(db, name), name, df)}

\* os.path.join(output_dir, db_name)
path_join(dir, name) == dir \o <<"/">> \o name

\* db_name = f"{base_name.replace(' ', '_')}.db"; db_path
DbPath(dir, base_name) == path_join(dir, replace(base_name) \o <<".", "d", "b">>)

\* all_bases_dict = {b["id"]: b["name"] for b in all_bases}; .get(base_id)
DictGetName(bases, id) ==
    IF \E i \in 1..Len(bases) : bases[i].id = id
    THEN bases[CHOOSE i \in 1..Len(bases) :
                 bases[i].id = id /\ \A j \in (i + 1)..Len(bases) : bases[j].id # id].name
    ELSE NONE

\* if not base_name: the requested id is treated as not found
NotFound(base_name) == Falsy(base_name)

\* a test for None alone
TokenMissingNoneOnly(tok) == tok = NONE

\* if not args.token
TokenMissing(tok) == Falsy(tok)

\* args.token: --token if passed, else os.environ.get("AIRTABLE_API_KEY")
ResolveToken(cli, env) == IF cli # NONE THEN cli ELSE env

\* args.output or os.getcwd()
Cwd == <<"w">>
ResolveOutput(o) == IF Falsy(o) THEN Cwd ELSE o

\* ------------------------------------------------------------------- inputs
\* opaque base ids: "a", "b", ... as the service issues them
IdChars == <<"a", "b", "c", "d">>
BaseId(i) == <<IdChars[i]>>

\* display names a base can carry
BaseNames == {EMPTY, <<"S", " ", "1">>, <<"S", "_", "1">>}

\* the "bases" array of GET /v0/meta/bases: distinct ids, any names
BaseLists ==
    UNION {[1..n -> BaseNames] : n \in 0..MaxBases}

AsBases(names) == [i \in 1..Len(names) |-> [id |-> BaseId(i), name |-> names[i]]]

\* values of --base: absent, " x , a", "a,a"
BaseArgs ==
    {NONE, <<" ", "x", " ", ",", " ", "a">>, <<"a", ",", "a">>}

\* values of --token and of AIRTABLE_API_KEY: absent, "", a token
TokenValues == {NONE, EMPTY, <<"k">>}

\* values of --output: absent or a directory
OutputArgs == {NONE, <<"o">>}

\* display names of a base's tables (distinct within a base)
TableNames == {<<"T", " ", "1">>, <<"T", "_", "1">>, <<"U">>}

\* the "tables" array of GET /v0/meta/bases/{id}/tables; a table's id is its
\* position in the array
TableLists ==
    {ns \in UNION {[1..n -> TableNames] : n \in 0..MaxTables} :
        \A i, j \in 1..Len(ns) : i # j => ns[i] # ns[j]}

AsTables(names) == [i \in 1..Len(names) |-> [id |-> i, name |-> names[i]]]

\* what table_obj.all() can return in a run of main
RecAnn ==
    <<[id |-> "rec1",
       fields |-> <<<<"Name", Scalar("Ann")>>, <<"Tags", <<"list", "a", "b">>>>,
                    <<"Meta", <<"dict", "k", "v">>>>>>]>>
RecBob ==
    <<[id |-> "rec1", fields |-> <<<<"Name", Scalar("Bob")>>>>],
      [id |-> "rec2", fields |-> <<<<"Age", Scalar("7")>>>>]>>
RecordLists == {<< >>, RecAnn}

\* stores a previous run can have left in the working directory
StaleStores ==
    {<< >>,
     (DbPath(Cwd, <<"S", "_", "1">>) :>
        (<<"T", "_", "1">> :> airtable_to_df(RecAnn)))}

\* -------------------------------------------------------------------- state
VARIABLES
    pc,           \* where main is
    token,        \* args.token
    supplied,     \* whether --token or the environment held a non-empty token
    base,         \* args.base
    output_dir,   \* args.output, then the resolved directory
    dirs,         \* directories that exist
    all_bases,    \* the list get_all_bases returned
    base_ids,     \* the ids main iterates over
    bi,           \* index of the base in hand
    base_name,    \* name of the base being exported
    tables_meta,  \* the tables of the base being exported
    ti,           \* index of the table in hand
    fetched,      \* the records fetched for tables_meta[1..ti-1]
    store,        \* the database files
    err,          \* the exception in flight, "none" if none
    out,          \* the last line printed
    calls,        \* network calls made: bases (how many list requests), meta (the
                  \* base ids asked for their tables), records (the base ids of
                  \* which a table's records were asked)
    exported,     \* ids for which export_base_to_sqlite was called, in order
    warned,       \* ids for which the skip warning was printed
    written,      \* the tables saved in this run: [path, name, id of the base]
    last          \* the to_sql the last step completed, if any: [path, name, old, df]

vars == <<pc, token, supplied, base, output_dir, dirs, all_bases, base_ids, bi,
          base_name, tables_meta, ti, fetched, store, err, out, calls, exported,
          warned, written, last>>

NoWrite == [path |-> EMPTY, name |-> EMPTY, old |-> NoTables, df |-> airtable_to_df(<< >>)]

Init ==
    /\ pc = "parse"
    /\ token = NONE
    /\ supplied = FALSE
    /\ base = NONE
    /\ output_dir = NONE
    /\ dirs = {Cwd}
    /\ all_bases = << >>
    /\ base_ids = << >>
    /\ bi = 1
    /\ base_name = NONE
    /\ tables_meta = << >>
    /\ ti = 1
    /\ fetched = << >>
    /\ store \in StaleStores
    /\ err = "none"
    /\ out = "none"
    /\ calls = [bases |-> 0, meta |-> << >>, records |-> {}]
    /\ exported = << >>
    /\ warned = {}
    /\ written = {}
    /\ last = NoWrite

\* the requests the three network functions send
AfterListCall(c) == [c EXCEPT !.bases = @ + 1]
\* the base list asked again for each base
AfterMetaCallRequery(c, id) == [c EXCEPT !.meta = Append(@, id), !.bases = @ + 1]
AfterMetaCall(c, id) == [c EXCEPT !.meta = Append(@, id)]
AfterRecordsCall(c, id) == [c EXCEPT !.records = @ \cup {id}]

\* an exception caught around the step: the loop goes on
RaiseCaught(kind) == err' = kind /\ UNCHANGED <<pc, base_name, tables_meta, ti, fetched>>

\* an exception nothing catches: it unwinds export_base_to_sqlite, whose
\* locals are gone, and leaves main
Raise(kind) ==
    /\ err' = kind
    /\ pc' = "crashed"
    /\ base_name' = NONE
    /\ tables_meta' = << >>
    /\ ti' = 1
    /\ fetched' = << >>

\* args = parser.parse_args()
ParseArgs ==
    /\ last' = NoWrite
    /\ pc = "parse"
    /\ \E cli \in TokenValues, env \in TokenValues :
          /\ token' = ResolveToken(cli, env)
          /\ supplied' = (~Falsy(cli) \/ ~Falsy(env))
    /\ base' \in BaseArgs
    /\ output_dir' \in OutputArgs
    /\ pc' = "check_token"
    /\ UNCHANGED <<dirs, all_bases, base_ids, bi, base_name, tables_meta, ti, fetched,
                   store, err, out, calls, exported, warned, written>>

\* if not args.token: parser.error(...)
CheckToken ==
    /\ last' = NoWrite
    /\ pc = "check_token"
    /\ IF TokenMissing(token)
       THEN pc' = "usage_error" /\ out' = "usage"
       ELSE pc' = "makedirs" /\ out' = out
    /\ UNCHANGED <<token, supplied, base, output_dir, dirs, all_bases, base_ids, bi,
                   base_name, tables_meta, ti, fetched, store, err, calls, exported,
                   warned, written>>

\* output_dir = args.output or os.getcwd(); os.makedirs(output_dir, exist_ok=True)
MakeDirs ==
    /\ last' = NoWrite
    /\ pc = "makedirs"
    /\ output_dir' = ResolveOutput(output_dir)
    /\ \/ dirs' = dirs \cup {output_dir'} /\ pc' = "get_bases" /\ err' = err
       \/ output_dir' \notin dirs /\ dirs' = dirs /\ Raise("makedirs")
    /\ UNCHANGED <<token, supplied, base, all_bases, base_ids, bi, base_name,
                   tables_meta, ti, fetched, store, out, calls, exported, warned,
                   written>>

\* all_bases = get_all_bases(args.token)
GetAllBases ==
    /\ last' = NoWrite
    /\ pc = "get_bases"
    /\ calls' = AfterListCall(calls)
    /\ \/ \E names \in BaseLists :
             /\ all_bases' = AsBases(names)
             /\ pc' = "select"
             /\ err' = err
       \/ all_bases' = all_bases /\ Raise("bases")
    /\ UNCHANGED <<token, supplied, base, output_dir, dirs, base_ids, bi, base_name,
                   tables_meta, ti, fetched, store, out, exported, warned, written>>

\* if args.base: base_ids = [...] else: iterate all_bases_dict
TargetIds(arg, bases) ==
    IF ~Falsy(arg) THEN ParseBaseIds(arg)
    ELSE [i \in 1..Len(bases) |-> bases[i].id]

SelectBases ==
    /\ last' = NoWrite
    /\ pc = "select"
    /\ base_ids' = TargetIds(base, all_bases)
    /\ bi' = 1
    /\ pc' = "loop"
    /\ UNCHANGED <<token, supplied, base, output_dir, dirs, all_bases, base_name,
                   tables_meta, ti, fetched, store, err, out, calls, exported, warned,
                   written>>

\* the filter branch's test on all_bases_dict.get(base_id)
Skips(arg, bases, id) == ~Falsy(arg) /\ NotFound(DictGetName(bases, id))

\* print("... not found in your account - skipping."); continue
SkipBase ==
    /\ last' = NoWrite
    /\ pc = "loop"
    /\ bi <= Len(base_ids)
    /\ Skips(base, all_bases, base_ids[bi])
    /\ warned' = warned \cup {base_ids[bi]}
    /\ out' = "warning"
    /\ bi' = bi + 1
    /\ UNCHANGED <<pc, token, supplied, base, output_dir, dirs, all_bases, base_ids,
                   base_name, tables_meta, ti, fetched, store, err, calls, exported,
                   written>>

\* export_base_to_sqlite(base_id, base_name, ...) up to the table loop: the
\* banner, fetch_base_metadata, the engine on db_path
StartExport ==
    /\ last' = NoWrite
    /\ pc = "loop"
    /\ bi <= Len(base_ids)
    /\ ~Skips(base, all_bases, base_ids[bi])
    /\ exported' = Append(exported, base_ids[bi])
    /\ out' = "exporting"
    /\ calls' = AfterMetaCall(calls, base_ids[bi])
    /\ \/ \E names \in TableLists :
             /\ base_name' = DictGetName(all_bases, base_ids[bi])
             /\ tables_meta' = AsTables(names)
             /\ ti' = 1
             /\ fetched' = << >>
             /\ pc' = "tables"
             /\ err' = err
       \/ Raise("meta")
    /\ UNCHANGED <<token, supplied, base, output_dir, dirs, all_bases, base_ids, bi,
                   store, warned, written>>

\* one iteration of "for table in tables_meta"; Responses is what
\* table_obj.all() can return
ProcessTableFrom(Responses) ==
    /\ pc = "tables"
    /\ ti <= Len(tables_meta)
    /\ LET table_name == replace(tables_meta[ti].name)
           db_path == DbPath(output_dir, base_name)
           db == Db(store, db_path)
       IN /\ calls' = AfterRecordsCall(calls, base_ids[bi])
          /\ \/ \* table_obj.all() raises
                /\ Raise("records")
                /\ last' = NoWrite
                /\ UNCHANGED <<store, out, written>>
             \/ \E records \in Responses :
                   LET df == airtable_to_df(records)
                   IN IF IsEmptyTable(df)
                      THEN /\ out' = "skipped"
                           /\ fetched' = Append(fetched, records)
                           /\ ti' = ti + 1
                           /\ last' = NoWrite
                           /\ UNCHANGED <<pc, err, base_name, tables_meta, store, written>>
                      ELSE \/ /\ store' = PutDb(store, db_path, to_sql(db, table_name, df))
                              /\ out' = "saved"
                              /\ fetched' = Append(fetched, records)
                              /\ ti' = ti + 1
                              /\ written' = written \cup {[path |-> db_path, name |-> table_name,
                                                       id |-> base_ids[bi]]}
                              /\ last' = [path |-> db_path, name |-> table_name,
                                          old |-> db, df |-> df]
                              /\ UNCHANGED <<pc, err, base_name, tables_meta>>
                           \/ \* df.to_sql raises
                              /\ \E left \in ToSqlFailed(db, table_name, df) :
                                    store' = IF left = db THEN store
                                             ELSE PutDb(store, db_path, left)
                              /\ Raise("write")
                              /\ last' = NoWrite
                              /\ UNCHANGED <<out, written>>
    /\ UNCHANGED <<token, supplied, base, output_dir, dirs, all_bases, base_ids, bi,
                   exported, warned>>

ProcessTable == ProcessTableFrom(RecordLists)

\* print("Finished exporting ...")
FinishExport ==
    /\ last' = NoWrite
    /\ pc = "tables"
    /\ ti > Len(tables_meta)
    /\ out' = "finished"
    /\ pc' = "finished"
    /\ UNCHANGED <<token, supplied, base, output_dir, dirs, all_bases, base_ids, bi,
                   base_name, tables_meta, ti, fetched, store, err, calls, exported,
                   warned, written>>

\* export_base_to_sqlite returns; main's loop takes the next id
Return ==
    /\ last' = NoWrite
    /\ pc = "finished"
    /\ pc' = "loop"
    /\ bi' = bi + 1
    /\ base_name' = NONE
    /\ tables_meta' = << >>
    /\ ti' = 1
    /\ fetched' = << >>
    /\ UNCHANGED <<token, supplied, base, output_dir, dirs, all_bases, base_ids, store,
                   err, out, calls, exported, warned, written>>

\* the loop is exhausted: main returns, exit status 0
Done ==
    /\ last' = NoWrite
    /\ pc = "loop"
    /\ bi > Len(base_ids)
    /\ pc' = "done"
    /\ UNCHANGED <<token, supplied, base, output_dir, dirs, all_bases, base_ids, bi,
                   base_name, tables_meta, ti, fetched, store, err, out, calls, exported,
                   warned, written>>

Next ==
    \/ ParseArgs
    \/ CheckToken
    \/ MakeDirs
    \/ GetAllBases
    \/ SelectBases
    \/ SkipBase
    \/ StartExport
    \/ ProcessTable
    \/ FinishExport
    \/ Return
    \/ Done

Spec == Init /\ [][Next]_vars

\* --------------------------------------------- the table loop on its own
\* every field mapping of at most two fields over these names and values
FieldNames == {"A", "B", "_id"}
FieldValues == {Scalar("x"), <<"list", "a", "b">>}
Fields == {<<n, v>> : n \in FieldNames, v \in FieldValues}
FieldMaps ==
    {<< >>} \cup {<<f>> : f \in Fields}
            \cup {<<p[1], p[2]>> : p \in {q \in Fields \X Fields : q[1][1] # q[2][1]}}

RecId(i) == <<"rec1", "rec2", "rec3", "rec4">>[i]

\* every record list of at most max records; a record's id is unique in its
\* table
RecordListsUpTo(max) ==
    UNION {{[i \in 1..n |-> [id |-> RecId(i), fields |-> fs[i]]] : fs \in [1..n -> FieldMaps]}
              : n \in 0..max}

TableBaseName == <<"S", " ", "1">>

\* what the table "T_1" of the base's file can hold when the loop starts
PriorStores ==
    {<< >>,
     (DbPath(Cwd, TableBaseName) :>
        (<<"T", "_", "1">> :> airtable_to_df(RecBob) @@ <<"U">> :> airtable_to_df(RecAnn)))}

\* export_base_to_sqlite at its table loop, for a base of one table
InitTable ==
    /\ pc = "tables"
    /\ token = <<"k">>
    /\ supplied = TRUE
    /\ base = NONE
    /\ output_dir = Cwd
    /\ dirs = {Cwd}
    /\ all_bases = AsBases(<<TableBaseName>>)
    /\ base_ids = <<BaseId(1)>>
    /\ bi = 1
    /\ base_name = TableBaseName
    /\ tables_meta = AsTables(<<<<"T", " ", "1">>>>)
    /\ ti = 1
    /\ fetched = << >>
    /\ store \in PriorStores
    /\ err = "none"
    /\ out = "exporting"
    /\ calls = [bases |-> 1, meta |-> <<BaseId(1)>>, records |-> {}]
    /\ exported = <<BaseId(1)>>
    /\ warned = {}
    /\ written = {}
    /\ last = NoWrite

ProcessAnyTable == ProcessTableFrom(RecordListsUpTo(MaxRecords))

NextTable ==
    \/ ProcessAnyTable
    \/ FinishExport

SpecTable == InitTable /\ [][NextTable]_vars

\* ------------------------------------------------------------------ claims
Ids(seq) == {seq[i] : i \in 1..Len(seq)}
AccessibleIds == {all_bases[i].id : i \in 1..Len(all_bases)}
Count(seq, x) == Cardinality({i \in 1..Len(seq) : seq[i] = x})
NoCalls == [bases |-> 0, meta |-> << >>, records |-> {}]

\* C1: with a --base filter, when main has run to its end, each requested id
\* (trimmed) was exported if and only if it is in the list get_all_bases
\* returned, and an id not in that list was warned about and not exported.
C1_ExportedIffAccessible ==
    (pc = "done" /\ ~Falsy(base)) =>
        \A id \in Ids(base_ids) :
            /\ (id \in Ids(exported)) <=> (id \in AccessibleIds)
            /\ (id \notin AccessibleIds) => (id \in warned /\ id \notin Ids(exported))

\* C2: when neither --token nor AIRTABLE_API_KEY holds a non-empty value, main
\* goes from the token check to the usage error and nowhere else, and no
\* network call is made, no base exported, no directory or table created.
C2_NoTokenUsageError ==
    /\ [](  (pc # "parse" /\ ~supplied) =>
              /\ pc \in {"check_token", "usage_error"}
              /\ calls = NoCalls
              /\ exported = << >>
              /\ written = {}
              /\ (pc = "usage_error" => out = "usage"))
    /\ [][(pc = "check_token" /\ ~supplied) => pc' = "usage_error"]_vars

C2_Witness == pc = "usage_error" /\ ~supplied /\ token = EMPTY

\* C3: when export_base_to_sqlite has finished a base, every remote table
\* with at least one record has a local table holding exactly its rows, and
\* every local table of the base's file belongs to exactly one such table.
C3_OneToOne ==
    pc = "finished" =>
        LET db == Db(store, DbPath(output_dir, base_name))
            nonEmpty == {i \in 1..Len(tables_meta) : fetched[i] # << >>}
        IN /\ \A i \in nonEmpty :
                /\ replace(tables_meta[i].name) \in DOMAIN db
                /\ Len(db[replace(tables_meta[i].name)].rows) = Len(fetched[i])
                /\ \A r \in 1..Len(fetched[i]) :
                      db[replace(tables_meta[i].name)].rows[r]["_id"]
                         = Scalar(fetched[i][r].id)
           /\ \A t \in DOMAIN db :
                Cardinality({i \in nonEmpty : replace(tables_meta[i].name) = t}) = 1

\* C4: two distinct base ids exported in one run never save tables into the
\* same database file.
C4_OwnFilePerBase ==
    \A w1, w2 \in written : w1.path = w2.path => w1.id = w2.id

\* C5: a table whose fetched records are empty is skipped: the step leaves
\* the store as it was, prints the skip, raises nothing and moves to the
\* next table of the base.
C5_EmptyTableSkipped ==
    [][(pc = "tables" /\ Len(fetched') = Len(fetched) + 1
          /\ fetched'[Len(fetched')] = << >>)
        => (/\ store' = store
            /\ written' = written
            /\ out' = "skipped"
            /\ err' = "none"
            /\ pc' = "tables"
            /\ ti' = ti + 1)]_vars

C5_Witness ==
    /\ out = "skipped"
    /\ fetched # << >>
    /\ fetched[Len(fetched)] = << >>
    /\ ti <= Len(tables_meta)
    /\ \E p \in DOMAIN store : DOMAIN store[p] # {}

\* the table the last step saved, as the store now holds it
SavedTable == store[last.path][last.name]

\* C6: a to_sql onto a table name that already held other, non-empty rows
\* leaves exactly the new write's columns and rows: nothing of the first
\* write remains.
C6_SecondWriteReplaces ==
    last # NoWrite =>
        /\ SavedTable.columns = last.df.columns
        /\ SavedTable.rows = last.df.rows
        /\ \A t \in DOMAIN last.old \ {last.name} : store[last.path][t] = last.old[t]

C6_Witness ==
    /\ last # NoWrite
    /\ last.name \in DOMAIN last.old
    /\ last.old[last.name].rows # << >>
    /\ last.df.rows # << >>
    /\ last.old[last.name].rows # last.df.rows
    /\ last.old[last.name].columns # last.df.columns

AllScalar(record) ==
    \A j \in 1..Len(record.fields) : ~IsComposite(record.fields[j][2])

\* C7: for a record whose values are all scalars, the row airtable_to_df
\* builds has every input field with its own value, '_id' with the record
\* id, and exactly one key more than the input mapping.
C7_ScalarRowIsFieldsPlusId ==
    \A t \in 1..Len(fetched) : \A r \in 1..Len(fetched[t]) :
        LET record == fetched[t][r]
            row == CleanFields(record)
        IN AllScalar(record) =>
              /\ Len(row) = Len(record.fields) + 1
              /\ HasKey(row, "_id") /\ Get(row, "_id") = Scalar(record.id)
              /\ \A j \in 1..Len(record.fields) :
                    /\ HasKey(row, record.fields[j][1])
                    /\ Get(row, record.fields[j][1]) = record.fields[j][2]

\* where a column is first seen: <<record, position in the record>>, '_id'
\* coming after the record's own fields unless it is one of them
FirstRecordWith(records, c) ==
    CHOOSE i \in 1..Len(records) :
        /\ (c = "_id" \/ c \in Keys(records[i].fields))
        /\ \A k \in 1..(i - 1) : c # "_id" /\ c \notin Keys(records[k].fields)
PositionIn(record, c) ==
    IF c \in Keys(record.fields)
    THEN CHOOSE j \in 1..Len(record.fields) : record.fields[j][1] = c
    ELSE Len(record.fields) + 1
SeenBefore(records, c, d) ==
    LET i == FirstRecordWith(records, c)
        k == FirstRecordWith(records, d)
    IN i < k \/ (i = k /\ PositionIn(records[i], c) < PositionIn(records[k], d))

\* C9: the columns of a saved table are the union of the field names of the
\* table's records and '_id', each once, in first-seen order; a row holds
\* null where its record lacks the field, and its record's id in '_id'.
C9_ColumnsAreUnion ==
    last # NoWrite =>
        LET records == fetched[Len(fetched)]
            cols == SavedTable.columns
        IN /\ {cols[n] : n \in 1..Len(cols)}
                = UNION {Keys(records[i].fields) : i \in 1..Len(records)} \cup {"_id"}
           /\ \A m, n \in 1..Len(cols) : m < n => SeenBefore(records, cols[m], cols[n])
           /\ Len(SavedTable.rows) = Len(records)
           /\ \A i \in 1..Len(records) :
                /\ DOMAIN SavedTable.rows[i] = {cols[n] : n \in 1..Len(cols)}
                /\ SavedTable.rows[i]["_id"] = Scalar(records[i].id)
                /\ \A n \in 1..Len(cols) :
                      (cols[n] # "_id" /\ cols[n] \notin Keys(records[i].fields))
                         => SavedTable.rows[i][cols[n]] = NULL

C9_Witness ==
    /\ last # NoWrite
    /\ Len(SavedTable.rows) = 2
    /\ SavedTable.columns = <<"B", "_id", "A">>
    /\ SavedTable.rows[1]["A"] = NULL
    /\ SavedTable.rows[2]["B"] = NULL

\* the table the loop has in hand
InHand ==
    [path |-> DbPath(output_dir, base_name),
     name |-> IF pc = "tables" /\ ti <= Len(tables_meta)
              THEN replace(tables_meta[ti].name) ELSE NONE]

Keeps(w) ==
    /\ w.path \in DOMAIN store' /\ w.path \in DOMAIN store
    /\ w.name \in DOMAIN store'[w.path] /\ w.name \in DOMAIN store[w.path]
    /\ store'[w.path][w.name] = store[w.path][w.name]

StepOrder ==
    /\ pc \in {"parse", "check_token", "usage_error"} =>
          dirs = {Cwd} /\ calls = NoCalls /\ exported = << >>
    /\ pc = "makedirs" => ~Falsy(token) /\ calls = NoCalls /\ exported = << >>
    /\ pc = "get_bases" => output_dir \in dirs /\ calls = NoCalls /\ exported = << >>
    /\ calls.bases > 0 => ~Falsy(token) /\ output_dir \in dirs
    /\ calls.bases <= 1
    /\ pc \in {"select", "loop", "tables", "finished", "done"} => calls.bases = 1
    /\ exported # << >> => calls.bases = 1
    /\ (pc # "parse" /\ Falsy(token)) => dirs = {Cwd}
    /\ Len(exported) <= bi

====
